---- MODULE Spec2Model ----
(***************************************************************************)
(* A model of the yup-ast converter (src/unnamed/part_000): the recursive  *)
(* walk that compiles a JSON description (nested arrays, objects, scalars) *)
(* into calls on the yup library.                                          *)
(*                                                                         *)
(* JavaScript values are tagged records.  The yup library is an external   *)
(* collaborator: a call of a library (or custom) builder is modelled as    *)
(* the free term recording the receiver, the member name and the actual    *)
(* positional arguments, so two compiled results are equal exactly when    *)
(* the same calls were made in the same order with the same arguments.     *)
(* A thrown error is the record Throw(cls, msg); every operator that can   *)
(* throw propagates the first error in JavaScript's evaluation order.      *)
(***************************************************************************)
EXTENDS Integers, Sequences, FiniteSets, TLC

VARIABLES
    registry,   \* names registered in the custom-validator registry
    arg,        \* the JSON node (or name) handed to the function under call
    prev,       \* the previousInstance parameter (chaining context)
    called,     \* which function was called ("none" before the call)
    result      \* what the call returned or threw

vars == <<registry, arg, prev, called, result>>

----------------------------------------------------------------------------
(* JavaScript values *)

Str(s) == [k |-> "str", s |-> s]
Num(n) == [k |-> "num", n |-> n]
Bool(b) == [k |-> "bool", b |-> b]
Null == [k |-> "null"]
Undef == [k |-> "undef"]
Regex(src) == [k |-> "regex", src |-> src]
Arr(items) == [k |-> "arr", items |-> items]
Obj(fields) == [k |-> "obj", fields |-> fields]
Field(key, val) == [key |-> key, val |-> val]

\* the library root: the namespace object imported as yup
yup == [k |-> "yup"]

\* a thrown error: its class and its message
Throw(cls, msg) == [k |-> "throw", cls |-> cls, msg |-> msg]
IsThrow(v) == v.k = "throw"

\* a callable: member m bound to receiver recv (a custom builder has no receiver)
Fn(recv, m) == [k |-> "fn", recv |-> recv, m |-> m]
NoReceiver == [k |-> "none"]

\* the value a builder call returns: the record of that call
Call(fn, args) == [k |-> "schema", recv |-> fn.recv, m |-> fn.m, args |-> args]

IsArray(v) == v.k = "arr"

\* evaluate value once and hand it to Body
Bind(value, Body(_)) == CHOOSE r \in {Body(x) : x \in {value}} : TRUE

TypeOf(v) ==
    CASE v.k = "str" -> "string"
      [] v.k = "num" -> "number"
      [] v.k = "bool" -> "boolean"
      [] v.k = "undef" -> "undefined"
      [] v.k = "fn" -> "function"
      [] OTHER -> "object"

\* JavaScript truthiness, as used by `!string`, `yupName &&` and filter(i => i)
Truthy(v) ==
    CASE v.k = "str" -> v.s # ""
      [] v.k = "num" -> v.n # 0
      [] v.k = "bool" -> v.b
      [] v.k = "undef" -> FALSE
      [] v.k = "null" -> FALSE
      [] OTHER -> TRUE

RECURSIVE JoinItems(_, _)
RECURSIVE ToJSString(_)
\* String(v), as string concatenation and property keys convert a value
ToJSString(v) ==
    CASE v.k = "str" -> v.s
      [] v.k = "num" -> ToString(v.n)
      [] v.k = "bool" -> (IF v.b THEN "true" ELSE "false")
      [] v.k = "undef" -> "undefined"
      [] v.k = "null" -> "null"
      [] v.k = "regex" -> "/" \o v.src \o "/"
      [] v.k = "arr" -> JoinItems(v.items, 1)
      [] OTHER -> "[object Object]"

\* Array.prototype.join(","): null and undefined elements join as empty strings
JoinItems(items, i) ==
    IF i > Len(items) THEN ""
    ELSE (IF items[i].k \in {"null", "undef"} THEN "" ELSE ToJSString(items[i]))
         \o (IF i < Len(items) THEN "," ELSE "")
         \o JoinItems(items, i + 1)

----------------------------------------------------------------------------
(* The yup library and the custom registry (external collaborators) *)

\* callables the library root exposes
RootMembers == {"number", "string", "object"}
\* callables every validator the library returns exposes
SchemaMembers == {"required", "min", "shape", "matches", "string"}

\* typeof instance[name] === 'function'
HasCallable(instance, name) ==
    CASE instance.k = "yup" -> name \in RootMembers
      [] instance.k = "schema" -> name \in SchemaMembers
      [] OTHER -> FALSE

\* getCustomValidator(name): the registered builder, or undefined
getCustomValidator(functionName) ==
    IF functionName.k = "str" /\ functionName.s \in registry
    THEN Fn(NoReceiver, functionName.s)
    ELSE Undef

----------------------------------------------------------------------------
(* Strings *)

RECURSIVE IndexFrom(_, _, _)
\* the least 0-based index >= i at which substring occurs in string, or -1
IndexFrom(string, substring, i) ==
    IF i + Len(substring) > Len(string) THEN -1
    ELSE IF SubSeq(string, i + 1, i + Len(substring)) = substring THEN i
    ELSE IndexFrom(string, substring, i + 1)

\* String.prototype.indexOf
IndexOf(string, substring) == IndexFrom(string, substring, 0)

\* String.prototype.slice(from), 0 <= from
Slice(string, from) == SubSeq(string, from + 1, Len(string))

RECURSIVE ArrayIndexFrom(_, _, _)
\* Array.prototype.indexOf: strict equality with a string element
ArrayIndexFrom(items, substring, i) ==
    IF i > Len(items) THEN -1
    ELSE IF items[i] = Str(substring) THEN i - 1
    ELSE ArrayIndexFrom(items, substring, i + 1)

\* getSubString: null, the text after the first occurrence of substring, or
\* a TypeError when the value is truthy and has no indexOf method
getSubString(string, substring) ==
    IF ~Truthy(string) THEN Null
    ELSE IF string.k = "str" THEN
        LET testedIndex == IndexOf(string.s, substring)
        IN IF testedIndex > -1
           THEN Str(Slice(string.s, testedIndex + Len(substring)))
           ELSE Null
    ELSE IF string.k = "arr" THEN
        LET testedIndex == ArrayIndexFrom(string.items, substring, 1)
        IN IF testedIndex > -1
           THEN Arr(SubSeq(string.items, testedIndex + Len(substring) + 1,
                           Len(string.items)))
           ELSE Null
    ELSE Throw("TypeError", "string.indexOf is not a function")

----------------------------------------------------------------------------
(* The converter *)

\* getYupFunction: the custom builder, else the member of previousInstance,
\* else the member of yup, else a ValidationError
\* a resolver that looks at the library root before the chaining context
getYupFunction_rootFirst(functionName0, previousInstance) ==
    LET functionName == IF IsArray(functionName0) THEN functionName0.items[1]
                        ELSE functionName0
        yupName == getSubString(functionName, "yup.")
    IN IF Truthy(getCustomValidator(functionName))
       THEN getCustomValidator(functionName)
       ELSE IF IsThrow(yupName) THEN yupName
       ELSE IF Truthy(yupName) /\ HasCallable(yup, ToJSString(yupName))
            THEN Fn(yup, ToJSString(yupName))
       ELSE IF Truthy(yupName) /\ HasCallable(previousInstance, ToJSString(yupName))
            THEN Fn(previousInstance, ToJSString(yupName))
       ELSE Throw("ValidationError",
                  "Could not find validator " \o ToJSString(functionName))

\* getYupFunction: the custom registry, then the previous instance, then yup
getYupFunction(functionName0, previousInstance) ==
    Bind(IF IsArray(functionName0)
         THEN (IF Len(functionName0.items) > 0 THEN functionName0.items[1] ELSE Undef)
         ELSE functionName0,
         LAMBDA functionName :
    Bind(getCustomValidator(functionName), LAMBDA customValidator :
        IF Truthy(customValidator) THEN customValidator
        ELSE
    Bind(getSubString(functionName, "yup."), LAMBDA yupName :
        IF IsThrow(yupName) THEN yupName
        ELSE IF Truthy(yupName) /\ HasCallable(previousInstance, ToJSString(yupName))
             THEN Fn(previousInstance, ToJSString(yupName))
        ELSE IF Truthy(yupName) /\ HasCallable(yup, ToJSString(yupName))
             THEN Fn(yup, ToJSString(yupName))
        ELSE Throw("ValidationError",
                   "Could not find validator " \o ToJSString(functionName)))))

RECURSIVE isPrefixNotation(_)
\* isPrefixNotation([functionName]): the head is a marker string, or an array
\* that is itself prefix notation
isPrefixNotation(item) ==
    LET functionName == IF Len(item.items) > 0 THEN item.items[1] ELSE Undef
    IN IF IsArray(functionName) /\ isPrefixNotation(functionName) THEN TRUE
       ELSE IF TypeOf(functionName) # "string" THEN FALSE
       ELSE IF IndexOf(functionName.s, "yup.") < 0 THEN FALSE
       ELSE TRUE

ensureArray(maybeArray) ==
    IF ~IsArray(maybeArray) THEN Arr(<<maybeArray>>) ELSE maybeArray

isRegExp(obj) == obj.k = "regex"

\* new RegExp(regexString): a pattern the constructor rejects is a SyntaxError
InvalidPatterns == {"("}
NewRegExp(regexString) ==
    IF regexString \in InvalidPatterns
    THEN Throw("SyntaxError", "Invalid regular expression: /" \o regexString \o "/")
    ELSE Regex(regexString)

RECURSIVE StringEntries(_, _)
\* Object.entries of a string: one entry per character, keyed by its index
StringEntries(s, i) ==
    IF i > Len(s) THEN <<>>
    ELSE <<Field(ToString(i - 1), Str(SubSeq(s, i, i)))>> \o StringEntries(s, i + 1)

\* Object.entries(jsonObject) of a value other than null and undefined
ObjectEntries(jsonObject) ==
    CASE jsonObject.k = "obj" -> jsonObject.fields
      [] jsonObject.k = "str" -> StringEntries(jsonObject.s, 1)
      [] jsonObject.k = "arr" ->
            [i \in 1..Len(jsonObject.items) |->
                Field(ToString(i - 1), jsonObject.items[i])]
      [] OTHER -> <<>>

RECURSIVE convertArray(_, _)
RECURSIVE transformArray(_, _)
RECURSIVE TransformArrayRest(_, _, _, _)
RECURSIVE transformObject(_, _)
RECURSIVE TransformObjectEntries(_, _, _, _)
RECURSIVE transformAll(_, _)
RECURSIVE MapTransformAll(_, _, _, _)

\* the special case of convertArray for yup.matches: argsToPass with its first
\* element made a RegExp, or the error thrown
MatchesArguments(functionName, argsToPass) ==
    LET regexString == IF Len(argsToPass) > 0 THEN argsToPass[1] ELSE Undef
    IN IF functionName = Str("yup.matches") /\ TypeOf(regexString) # "object"
       THEN IF TypeOf(regexString) # "string"
            THEN Throw("ValidationError",
                       "The first argument to matches() must be either a RegExp or a string")
            ELSE Bind(NewRegExp(regexString.s), LAMBDA regex :
                    IF IsThrow(regex) THEN regex
                    ELSE Arr(<<regex>> \o Tail(argsToPass)))
       ELSE Arr(argsToPass)

\* convertedArguments = transformAll(argsToPass, previousInstance)
CompileArguments(argsToPass, previousInstance) ==
    transformAll(argsToPass, previousInstance)

\* convertedArguments.filter(i => i).length < 1
NoTruthyElement(items) == \A i \in 1..Len(items) : ~Truthy(items[i])

\* the call of the builder: with no argument, with the list spread, or with
\* the single compiled value
InvokeBuilder(gotFunc, convertedArguments) ==
    IF IsArray(convertedArguments) THEN
        IF NoTruthyElement(convertedArguments.items)
        THEN Call(gotFunc, <<>>)
        ELSE Call(gotFunc, convertedArguments.items)
    ELSE Call(gotFunc, <<convertedArguments>>)

\* convertArray: resolve the name, convert the first argument of yup.matches,
\* compile the argument list, call the builder
convertArray(arrayArgument, previousInstance) ==
    Bind(ensureArray(arrayArgument).items, LAMBDA destructured :
    Bind(IF Len(destructured) > 0 THEN destructured[1] ELSE Undef,
         LAMBDA functionName :
        IF IsArray(functionName) THEN transformArray(arrayArgument, yup)
        ELSE
    Bind(getYupFunction(functionName, previousInstance), LAMBDA gotFunc :
        IF IsThrow(gotFunc) THEN gotFunc
        ELSE
    Bind(MatchesArguments(functionName,
                          IF Len(destructured) > 0 THEN Tail(destructured) ELSE <<>>),
         LAMBDA argsToPass :
        IF IsThrow(argsToPass) THEN argsToPass
        ELSE
    Bind(CompileArguments(argsToPass, previousInstance), LAMBDA convertedArguments :
        IF IsThrow(convertedArguments) THEN convertedArguments
        ELSE InvokeBuilder(gotFunc, convertedArguments))))))

\* one step of the forEach of transformArray: the new value of toReturn
ChainStep(item, toReturn, previousInstance) ==
    IF IsArray(item) THEN convertArray(item, toReturn)
    ELSE IF item = Str("object") THEN transformObject(item, previousInstance)
    ELSE IF IsArray(toReturn) THEN Arr(Append(toReturn.items, item))
    ELSE Arr(<<toReturn, item>>)

\* the forEach of transformArray over jsonArray.slice(1), from element i on
TransformArrayRest(jsonArray, i, toReturn, previousInstance) ==
    IF i > Len(jsonArray.items) THEN toReturn
    ELSE Bind(ChainStep(jsonArray.items[i], toReturn, previousInstance), LAMBDA next :
            IF IsThrow(next) THEN next
            ELSE TransformArrayRest(jsonArray, i + 1, next, previousInstance))

\* transformArray: compile element 0, then fold the rest onto the result
transformArray(jsonArray, previousInstance) ==
    Bind(convertArray(IF Len(jsonArray.items) > 0 THEN jsonArray.items[1] ELSE Undef,
                      previousInstance),
         LAMBDA toReturn :
            IF IsThrow(toReturn) THEN toReturn
            ELSE TransformArrayRest(jsonArray, 2, toReturn, previousInstance))

\* the value transformObject stores under a key
ShapeValue(value, previousInstance) ==
    IF IsArray(value) THEN transformArray(value, previousInstance)
    ELSE IF TypeOf(value) = "object" THEN transformObject(value, previousInstance)
    ELSE value

\* the forEach of transformObject over the entries, from entry i on
TransformObjectEntries(entries, i, toReturn, previousInstance) ==
    IF i > Len(entries) THEN Obj(toReturn)
    ELSE Bind(ShapeValue(entries[i].val, previousInstance), LAMBDA compiled :
            IF IsThrow(compiled) THEN compiled
            ELSE Bind(Append(toReturn, Field(entries[i].key, compiled)), LAMBDA more :
                    TransformObjectEntries(entries, i + 1, more, previousInstance)))

\* transformObject: Object.entries throws a TypeError on null and undefined;
\* otherwise the same keys, each value compiled
transformObject(jsonObject, previousInstance) ==
    IF jsonObject.k \in {"null", "undef"}
    THEN Throw("TypeError", "Cannot convert undefined or null to object")
    ELSE TransformObjectEntries(ObjectEntries(jsonObject), 1, <<>>, previousInstance)

\* jsonObjectOrArray.map(i => transformAll(i, previousInstance)), from element i on
MapTransformAll(items, i, mapped, previousInstance) ==
    IF i > Len(items) THEN Arr(mapped)
    ELSE Bind(transformAll(items[i], previousInstance), LAMBDA compiled :
            IF IsThrow(compiled) THEN compiled
            ELSE Bind(Append(mapped, compiled), LAMBDA more :
                    MapTransformAll(items, i + 1, more, previousInstance)))

\* transformAll: dispatch on the kind of the node
transformAll(jsonObjectOrArray, previousInstance) ==
    IF IsArray(jsonObjectOrArray) THEN
        IF isPrefixNotation(jsonObjectOrArray)
        THEN transformArray(jsonObjectOrArray, previousInstance)
        ELSE MapTransformAll(jsonObjectOrArray.items, 1, <<>>, previousInstance)
    ELSE IF TypeOf(jsonObjectOrArray) = "object" /\ ~isRegExp(jsonObjectOrArray)
         THEN transformObject(jsonObjectOrArray, previousInstance)
    ELSE jsonObjectOrArray

RECURSIVE Serialize(_, _)
RECURSIVE SerializeItems(_, _, _)
RECURSIVE SerializeFields(_, _, _, _)

\* the elements of an array from i on, each on its own line at indent ind
SerializeItems(items, i, ind) ==
    IF i > Len(items) THEN ""
    ELSE ind
         \o (IF items[i].k = "undef" THEN "null" ELSE Serialize(items[i], ind))
         \o (IF i < Len(items) THEN ",\n" ELSE "")
         \o SerializeItems(items, i + 1, ind)

\* the properties of an object from i on; one whose value is undefined is omitted
SerializeFields(fields, i, ind, first) ==
    IF i > Len(fields) THEN ""
    ELSE IF fields[i].val.k = "undef" THEN SerializeFields(fields, i + 1, ind, first)
    ELSE (IF first THEN "" ELSE ",\n")
         \o ind \o "\"" \o fields[i].key \o "\": " \o Serialize(fields[i].val, ind)
         \o SerializeFields(fields, i + 1, ind, FALSE)

\* the text JSON.stringify(value, null, 4) gives for a value nested at indent ind
Serialize(value, ind) ==
    CASE value.k = "str" -> "\"" \o value.s \o "\""
      [] value.k = "num" -> ToString(value.n)
      [] value.k = "bool" -> (IF value.b THEN "true" ELSE "false")
      [] value.k = "null" -> "null"
      [] value.k = "arr" ->
            IF Len(value.items) = 0 THEN "[]"
            ELSE "[\n" \o SerializeItems(value.items, 1, ind \o "    ")
                 \o "\n" \o ind \o "]"
      [] value.k = "obj" ->
            IF \A i \in 1..Len(value.fields) : value.fields[i].val.k = "undef"
            THEN "{}"
            ELSE "{\n" \o SerializeFields(value.fields, 1, ind \o "    ", TRUE)
                 \o "\n" \o ind \o "}"
      [] OTHER -> "{}"

\* 'Could not validate ' + JSON.stringify(node, null, 4): undefined at the top
\* level is not serialized and concatenates as "undefined"
JSONStringify(value) ==
    IF value.k = "undef" THEN "undefined" ELSE Serialize(value, "")

\* an implicit chain that leaves the object optional
ImplicitObjectChain_notRequired(jsonObjectOrArray) ==
    Arr(<<Arr(<<Str("yup.object")>>),
          Arr(<<Str("yup.shape"), jsonObjectOrArray>>)>>)

\* the chain transform compiles for a node that is not an array
ImplicitObjectChain(jsonObjectOrArray) ==
    Arr(<<Arr(<<Str("yup.object")>>),
          Arr(<<Str("yup.required")>>),
          Arr(<<Str("yup.shape"), jsonObjectOrArray>>)>>)

\* a catch clause that wraps whatever was thrown
Rethrow_wrapAll(error, jsonObjectOrArray) ==
    Throw("Error",
          "Could not validate " \o JSONStringify(jsonObjectOrArray)
          \o "\n" \o error.msg)

\* the catch clause of transform: a ValidationError is rethrown as an Error
\* naming the node, any other error as it is
Rethrow(error, jsonObjectOrArray) ==
    IF error.cls = "ValidationError"
    THEN Throw("Error",
               "Could not validate " \o JSONStringify(jsonObjectOrArray)
               \o "\n" \o error.msg)
    ELSE error

\* transform: a node that is not an array is compiled as object / required /
\* shape(node); what compilation throws goes through the catch clause
transform(jsonObjectOrArray) ==
    Bind(IF ~IsArray(jsonObjectOrArray)
         THEN transformAll(ImplicitObjectChain(jsonObjectOrArray), yup)
         ELSE transformAll(jsonObjectOrArray, yup),
         LAMBDA compiled :
            IF IsThrow(compiled) THEN Rethrow(compiled, jsonObjectOrArray)
            ELSE compiled)

----------------------------------------------------------------------------
(* The calls explored: JSON nodes, names and chaining contexts *)

\* the longest chain and the longest argument list enumerated
MaxChain == 3
MaxArgs == 2

SeqsUpTo(S, n) == UNION {[1..m -> S] : m \in 0..n}

\* one invocation: [name, ...args]
Inv(name, args) == Arr(<<Str(name)>> \o args)

\* a validator the library returned, and a tuple a chain accumulated
NumberSchema == Call(Fn(yup, "number"), <<>>)
TupleAccumulator == Arr(<<NumberSchema, Str("msg")>>)
Contexts == {yup, NumberSchema, TupleAccumulator}

\* the registry is populated before compilation and read-only during it
Registries == {{}, {"custom", "yup.string"}}

NumberChain == Arr(<<Inv("yup.number", <<>>)>>)
RequiredShape == Obj(<<Field("a", Arr(<<Inv("yup.required", <<>>)>>))>>)

\* raw arguments: falsy and truthy literals, a marker string, null, a regular
\* expression, a nested chain, a mapping
ArgAtoms ==
    {Num(0), Num(5), Str("abc"), Str("yup.min"), Null, Regex("a"), Bool(FALSE),
     NumberChain, RequiredShape}
ArgLists ==
    SeqsUpTo(ArgAtoms, MaxArgs)
    \cup {<<Str("")>>, <<Str("(")>>, <<Bool(TRUE)>>, <<Arr(<<>>)>>,
          <<Arr(<<Str("abc")>>)>>, <<Arr(<<Arr(<<Str("abc")>>)>>)>>,
          <<Num(5), Inv("yup.required", <<Str("abc")>>)>>,
          <<NumberChain, Str("object")>>}

\* names: root-only, root and validator, validator-only, unresolvable, without
\* marker, marker not at the start, marker alone, empty
Names ==
    {"yup.number", "yup.string", "yup.required", "yup.min", "yup.matches",
     "yup.nope", "custom", "x.yup.matches", "yup.", "abc", ""}
NameInputs == {Str(n) : n \in Names} \cup {Arr(<<Str(n)>>) : n \in Names}

InvNames == {"yup.min", "yup.matches", "x.yup.matches", "custom"}
Invocations == {Inv(n, a) : n \in InvNames, a \in ArgLists}

\* elements of a chain: invocations, a nested chain in the name slot, literals
ChainElems ==
    {Inv("yup.number", <<>>), Inv("yup.string", <<>>), Inv("yup.required", <<>>),
     Inv("yup.min", <<Num(5)>>), Inv("yup.min", <<Num(0)>>),
     Inv("yup.shape", <<RequiredShape>>), Inv("yup.nope", <<>>), Str("msg")}
Chains == {Arr(c) : c \in SeqsUpTo(ChainElems, MaxChain) \ {<<>>}}

\* values of a mapping
MapValues ==
    {Num(5), Str("abc"), Null, Regex("a"), NumberChain,
     Arr(<<Num(1), Num(2)>>), Arr(<<Str("nomarker")>>), RequiredShape}
Mappings ==
    {Obj(<<>>)}
    \cup {Obj(<<Field("a", v)>>) : v \in MapValues}
    \cup {Obj(<<Field("a", v), Field("b", w)>>) : v \in MapValues, w \in MapValues}

Scalars ==
    {Num(0), Num(5), Str("abc"), Str(""), Str("yup.min"), Str("object"),
     Bool(FALSE), Bool(TRUE), Null, Regex("a")}

Lists == {Arr(a) : a \in ArgLists}

\* the pairs <<node, previousInstance>> a call is made with
Calls ==
    ((Scalars \cup Mappings \cup Lists \cup Chains) \X {yup})
    \cup ((Invocations \cup NameInputs \cup Scalars) \X Contexts)
    \cup ({RequiredShape, Obj(<<Field("a", Null)>>), Arr(<<NumberChain>>)}
          \X Contexts)

Init ==
    /\ registry \in Registries
    /\ \E c \in Calls : arg = c[1] /\ prev = c[2]
    /\ called = "none"
    /\ result = Undef

Return(name, value) ==
    /\ called = "none"
    /\ called' = name
    /\ result' = value
    /\ UNCHANGED <<registry, arg, prev>>

\* the public entry point: it takes no chaining context
CallTransform ==
    /\ prev = yup
    /\ arg \notin NameInputs \ Scalars
    /\ Return("transform", transform(arg))

CallTransformAll ==
    /\ arg \notin NameInputs \ Scalars
    /\ Return("transformAll", transformAll(arg, prev))

CallTransformObject ==
    /\ TypeOf(arg) = "object"
    /\ ~IsArray(arg)
    /\ Return("transformObject", transformObject(arg, prev))

CallTransformArray ==
    /\ IsArray(arg)
    /\ Return("transformArray", transformArray(arg, prev))

CallConvertArray ==
    /\ Return("convertArray", convertArray(arg, prev))

CallGetYupFunction ==
    /\ arg \in NameInputs
    /\ Return("getYupFunction", getYupFunction(arg, prev))

CallIsPrefixNotation ==
    /\ IsArray(arg)
    /\ Return("isPrefixNotation", Bool(isPrefixNotation(arg)))

Next ==
    \/ CallTransform
    \/ CallTransformAll
    \/ CallTransformObject
    \/ CallTransformArray
    \/ CallConvertArray
    \/ CallGetYupFunction
    \/ CallIsPrefixNotation

Spec == Init /\ [][Next]_vars

----------------------------------------------------------------------------
(* Vocabulary of the properties *)

HasMarker(s) == IndexOf(s, "yup.") >= 0
\* the text after the first marker of a name that has one
BareName(s) == Slice(s, IndexOf(s, "yup.") + 4)

\* [name, ...args] with a string in the name slot
IsPlainInvocation(v) == IsArray(v) /\ Len(v.items) >= 1 /\ v.items[1].k = "str"
NameOf(v) == v.items[1]
ArgsOf(v) == Tail(v.items)

\* a literal that no compiler function interprets
IsPlainLiteral(v) == v.k \in {"num", "bool"} \/ (v.k = "str" /\ ~HasMarker(v.s))

\* a chain of invocations with marker names and literal arguments
IsInvocationChain(v) ==
    /\ IsArray(v)
    /\ Len(v.items) >= 1
    /\ \A i \in 1..Len(v.items) :
        /\ IsPlainInvocation(v.items[i])
        /\ HasMarker(NameOf(v.items[i]).s)
        /\ \A j \in 1..Len(ArgsOf(v.items[i])) : IsPlainLiteral(ArgsOf(v.items[i])[j])

RECURSIVE ManualChain(_, _, _)
\* inv0().method(inv1_args)...: each name resolved against the previous result
\* and called with the arguments as written
ManualChain(items, i, context) ==
    IF i > Len(items) THEN context
    ELSE LET builder == getYupFunction(NameOf(items[i]), context)
         IN IF IsThrow(builder) THEN builder
            ELSE ManualChain(items, i + 1, Call(builder, ArgsOf(items[i])))

\* C1: a chain of invocations compiled from the library root is the
\* left-to-right fold: each name is resolved against the result of the step
\* before it and called with the invocation's arguments.
C1_ChainIsLeftFold ==
    (called \in {"transformAll", "transformArray"} /\ prev = yup
        /\ IsInvocationChain(arg))
    => result = ManualChain(arg.items, 1, yup)

\* what compilation of the node handed to transform returns or throws
Compilation(node) ==
    transformAll(IF IsArray(node)
                 THEN node
                 ELSE Arr(<<Arr(<<Str("yup.object")>>), Arr(<<Str("yup.required")>>),
                            Arr(<<Str("yup.shape"), node>>)>>),
                 yup)

\* C2: transform rethrows exactly the ValidationErrors of compilation as an
\* Error whose message holds the serialized node handed to transform followed
\* by the underlying message; any other error leaves transform as it is; a
\* failed compilation returns no validator; transformAll itself wraps nothing.
C2_TransformWrapsOnlyValidationErrors ==
    /\ called = "transform" =>
        LET raised == Compilation(arg)
            serialized == JSONStringify(arg)
        IN /\ (IsThrow(raised) /\ raised.cls = "ValidationError") =>
                /\ IsThrow(result)
                /\ result.cls = "Error"
                /\ result.msg = "Could not validate " \o serialized \o "\n" \o raised.msg
           /\ (IsThrow(raised) /\ raised.cls # "ValidationError") => result = raised
           /\ ~IsThrow(raised) => result = raised
    /\ (called = "transformAll" /\ IsThrow(result)) => result.cls # "Error"

\* C2 witness: a mapping whose value names no validator; the message holds the
\* mapping as JSON.stringify(node, null, 4) prints it, then the cause.
C2_Witness ==
    /\ called = "transform"
    /\ arg = Obj(<<Field("a", Arr(<<Str("nomarker")>>))>>)
    /\ result = Throw("Error",
            "Could not validate {\n    \"a\": [\n        \"nomarker\"\n    ]\n}\nCould not find validator nomarker")

\* the name handed to the resolver, unwrapped
ResolverName(a) == IF IsArray(a) THEN a.items[1].s ELSE a.s

\* C3: the resolver returns the custom builder when the registry has the name;
\* otherwise the member of the context named after the marker; otherwise that
\* member of the library root; otherwise it throws, naming the name.
C3_ResolverPrecedence ==
    called = "getYupFunction" =>
        LET n == ResolverName(arg)
        IN IF n \in registry THEN result = Fn(NoReceiver, n)
           ELSE IF HasMarker(n) /\ HasCallable(prev, BareName(n))
                THEN result = Fn(prev, BareName(n))
           ELSE IF HasMarker(n) /\ HasCallable(yup, BareName(n))
                THEN result = Fn(yup, BareName(n))
           ELSE result = Throw("ValidationError", "Could not find validator " \o n)

\* C3 witness: a name the registry, the context and the root all have.
C3_Witness ==
    /\ called = "getYupFunction"
    /\ arg = Str("yup.string")
    /\ prev = NumberSchema
    /\ registry = {"custom", "yup.string"}
    /\ result = Fn(NoReceiver, "yup.string")

ExplicitObjectChain(node) ==
    Arr(<<Inv("yup.object", <<>>), Inv("yup.required", <<>>), Inv("yup.shape", <<node>>)>>)

\* C4 as stated: transform of a node that is not an array gives the result, or
\* the error, of transform of the explicit object / required / shape chain; of
\* an array, the result or the error of transformAll from the root.
C4_SameResultOrSameError ==
    called = "transform" =>
        IF ~IsArray(arg) THEN result = transform(ExplicitObjectChain(arg))
        ELSE result = transformAll(arg, yup)

WrapperPrefix(node) == "Could not validate " \o JSONStringify(node) \o "\n"
IsWrapperFor(error, node) ==
    /\ IsThrow(error)
    /\ error.cls = "Error"
    /\ Len(error.msg) >= Len(WrapperPrefix(node))
    /\ SubSeq(error.msg, 1, Len(WrapperPrefix(node))) = WrapperPrefix(node)
UnderlyingMessage(error, node) == Slice(error.msg, Len(WrapperPrefix(node)))

\* C4 amended: a node that is not an array compiles to the validator of the
\* explicit chain, and fails when the explicit chain fails, with the same
\* error, except that a wrapped error names the node as handed to transform
\* (same underlying message); an array gives the result of transformAll from
\* the root, a ValidationError being wrapped.
C4_BareNodeCompilesAsExplicitChain ==
    called = "transform" =>
        IF ~IsArray(arg) THEN
            LET explicit == transform(ExplicitObjectChain(arg))
            IN IF IsThrow(explicit) /\ explicit.cls = "Error"
               THEN /\ IsWrapperFor(explicit, ExplicitObjectChain(arg))
                    /\ IsWrapperFor(result, arg)
                    /\ UnderlyingMessage(result, arg)
                        = UnderlyingMessage(explicit, ExplicitObjectChain(arg))
               ELSE result = explicit
        ELSE
            LET direct == transformAll(arg, yup)
            IN IF IsThrow(direct) /\ direct.cls = "ValidationError"
               THEN /\ IsWrapperFor(result, arg)
                    /\ UnderlyingMessage(result, arg) = direct.msg
               ELSE result = direct

\* C4 witness: a bare mapping with one good and one unresolvable value.
C4_Witness ==
    /\ called = "transform"
    /\ arg = Obj(<<Field("a", NumberChain), Field("b", Arr(<<Str("nomarker")>>))>>)
    /\ IsWrapperFor(result, arg)
    /\ UnderlyingMessage(result, arg) = "Could not find validator nomarker"

IsScalar(v) == v.k \in {"str", "num", "bool", "null", "regex"}

\* C5: transformAll returns a scalar (string, number, boolean, null, regular
\* expression) unchanged, also as an element of a plain list.
C5_ScalarsPassThrough ==
    (called = "transformAll"
        /\ \/ IsScalar(arg)
           \/ /\ IsArray(arg)
              /\ ~isPrefixNotation(arg)
              /\ \A i \in 1..Len(arg.items) : IsScalar(arg.items[i]))
    => result = arg

\* the builder convertArray resolves for an invocation
BuilderOf(invocation, context) == getYupFunction(NameOf(invocation), context)

\* an invocation convertArray finds a builder for, yup.matches apart
IsResolvedInvocation(invocation, context) ==
    /\ IsPlainInvocation(invocation)
    /\ NameOf(invocation) # Str("yup.matches")
    /\ ~IsThrow(BuilderOf(invocation, context))

FalsyLiterals == {Num(0), Bool(FALSE), Str(""), Null}

\* C6: the builder is called once: with no argument when every argument is
\* falsy (the empty list, lists of 0, false, '' or null); with all arguments in
\* order when one is truthy; with the single value when the compiled arguments
\* are not a list.
C6_ArgumentPolicy ==
    (called = "convertArray" /\ IsResolvedInvocation(arg, prev)) =>
        LET args == ArgsOf(arg)
            builder == BuilderOf(arg, prev)
        IN /\ (\A i \in 1..Len(args) : args[i] \in FalsyLiterals)
                => result = Call(builder, <<>>)
           /\ ((\A i \in 1..Len(args) : IsPlainLiteral(args[i]))
                    /\ (\E i \in 1..Len(args) : Truthy(args[i])))
                => result = Call(builder, args)
           /\ (~IsThrow(CompileArguments(Arr(args), prev))
                    /\ ~IsArray(CompileArguments(Arr(args), prev)))
                => result = Call(builder, <<CompileArguments(Arr(args), prev)>>)

\* the validator transform builds around a compiled shape
RequiredObject == Call(Fn(Call(Fn(yup, "object"), <<>>), "required"), <<>>)

\* C7: element 0 of every chain is resolved against the library root, never
\* against the validator of an enclosing chain: a bare mapping compiles to
\* object().required().shape(S), S holding each value compiled from the root.
C7_NestedChainStartsAtRoot ==
    (called = "transform" /\ arg \in Mappings) =>
        LET shape == transformObject(arg, yup)
        IN IF IsThrow(shape) THEN result = Rethrow(shape, arg)
           ELSE result = Call(Fn(RequiredObject, "shape"), <<shape>>)

\* the compiled arguments, one per raw argument, each compiled on its own
EachCompiled(args, context) ==
    [i \in 1..Len(args) |-> transformAll(args[i], context)]

\* C8: every raw argument is compiled on its own, whatever its
\* position, and the builder receives one compiled value per raw argument.
C8_EachArgumentCompiledAlone ==
    (called = "convertArray" /\ IsResolvedInvocation(arg, prev)
        /\ (\A i \in 1..Len(ArgsOf(arg)) : ~IsThrow(EachCompiled(ArgsOf(arg), prev)[i]))
        /\ (\E i \in 1..Len(ArgsOf(arg)) : Truthy(EachCompiled(ArgsOf(arg), prev)[i])))
    => result = Call(BuilderOf(arg, prev), EachCompiled(ArgsOf(arg), prev))

RECURSIVE IsInvocationSequence(_)
\* a sequence whose head is a marker string or an invocation sequence
IsInvocationSequence(v) ==
    /\ Len(v.items) >= 1
    /\ \/ v.items[1].k = "str" /\ HasMarker(v.items[1].s)
       \/ v.items[1].k = "arr" /\ IsInvocationSequence(v.items[1])

\* the compilations of the elements, or the first error among them
Elementwise(items, context) ==
    IF \E i \in 1..Len(items) : IsThrow(transformAll(items[i], context))
    THEN transformAll(items[CHOOSE i \in 1..Len(items) :
                                /\ IsThrow(transformAll(items[i], context))
                                /\ \A j \in 1..(i - 1) :
                                        ~IsThrow(transformAll(items[j], context))],
                      context)
    ELSE Arr(EachCompiled(items, context))

\* the call the builder gets for a compiled argument list or value
Spread(builder, compiled) ==
    IF IsThrow(compiled) THEN compiled
    ELSE IF ~IsArray(compiled) THEN Call(builder, <<compiled>>)
    ELSE IF \A i \in 1..Len(compiled.items) : ~Truthy(compiled.items[i])
         THEN Call(builder, <<>>)
    ELSE Call(builder, compiled.items)

\* What convertArray does: the raw argument list is compiled as one node.  A
\* list whose first argument is neither a marker string nor an invocation
\* sequence is compiled argument by argument; any other list is compiled as
\* one chain, and the builder receives that chain's result.
ArgumentListCompiledAsOneNode ==
    (called = "convertArray" /\ IsResolvedInvocation(arg, prev)) =>
        IF IsInvocationSequence(Arr(ArgsOf(arg)))
        THEN result = Spread(BuilderOf(arg, prev), transformArray(Arr(ArgsOf(arg)), prev))
        ELSE result = Spread(BuilderOf(arg, prev), Elementwise(ArgsOf(arg), prev))

FirstArgument(invocation) ==
    IF Len(ArgsOf(invocation)) > 0 THEN ArgsOf(invocation)[1] ELSE Undef

ShapeError ==
    Throw("ValidationError",
          "The first argument to matches() must be either a RegExp or a string")

\* what C9 says of an invocation of matches the resolver finds a builder for
MatchesRule(first) ==
    /\ (first.k = "str" /\ ~IsThrow(result)) =>
            /\ Len(result.args) >= 1
            /\ result.args[1] = Regex(first.s)
    /\ (first.k = "regex" /\ ~IsThrow(result)) =>
            /\ Len(result.args) >= 1
            /\ result.args[1] = first
    /\ first.k \notin {"str", "regex", "obj", "arr"} => result = ShapeError

\* C9: for every invocation whose bare name is matches, a string
\* first argument reaches the builder as a regular expression, a regular
\* expression unchanged, and anything else that is no object is a shape error.
C9_BareMatchesConvertsFirstArgument ==
    (called = "convertArray" /\ IsPlainInvocation(arg)
        /\ HasMarker(NameOf(arg).s) /\ BareName(NameOf(arg).s) = "matches"
        /\ ~IsThrow(BuilderOf(arg, prev)))
    => MatchesRule(FirstArgument(arg))

\* C10: isPrefixNotation is true exactly of a sequence whose head is a marker
\* string or a sequence it is true of; any other sequence is compiled as a
\* plain list of the same length: a scalar element is kept as it is, any other
\* element is compiled on its own, with no chaining between elements.
C10_ClassifierAndPlainLists ==
    /\ called = "isPrefixNotation" => result = Bool(IsInvocationSequence(arg))
    /\ (called = "transformAll" /\ IsArray(arg) /\ ~IsInvocationSequence(arg))
        => IF \A i \in 1..Len(arg.items) : IsScalar(arg.items[i])
           THEN result = arg
           ELSE result = Elementwise(arg.items, prev)

RECURSIVE ValueByKind(_, _), EntriesByKind(_, _, _, _)
\* a value of a mapping compiled by its kind: an invocation sequence as a
\* chain, any other sequence as a plain list, a mapping as a shape, a scalar
\* as it is
ValueByKind(value, context) ==
    IF IsArray(value)
    THEN IF IsInvocationSequence(value) THEN transformArray(value, context)
         ELSE IF \A i \in 1..Len(value.items) : IsScalar(value.items[i]) THEN value
         ELSE Elementwise(value.items, context)
    ELSE IF value.k = "obj" THEN EntriesByKind(value.fields, 1, <<>>, context)
    ELSE value

\* the mapping with the same keys, key by key, or the first error
EntriesByKind(fields, i, done, context) ==
    IF i > Len(fields) THEN Obj(done)
    ELSE LET compiled == ValueByKind(fields[i].val, context)
         IN IF IsThrow(compiled) THEN compiled
            ELSE EntriesByKind(fields, i + 1,
                               Append(done, Field(fields[i].key, compiled)), context)

\* C11: transformObject returns a mapping with exactly the keys of its input,
\* each value compiled by its kind: a sequence is classified first and is a
\* chain only when it is an invocation, a plain list otherwise; a mapping is
\* compiled as a shape; a scalar (string, number, boolean, null, regular
\* expression) is stored unchanged.
C11_ShapeCompiledByKind ==
    (called = "transformObject" /\ arg.k = "obj")
    => result = EntriesByKind(arg.fields, 1, <<>>, prev)

====
